---- MODULE Spec2Model ----
(***************************************************************************)
(* countdown_cli: the Pomodoro engine (PomodoroTimer), the main loop       *)
(* (terminal_run), the input listener (handle_user_input), the             *)
(* configuration store (CountDownConfig) and its periodic reload.          *)
(*                                                                         *)
(* Time is one clock `now`, in milliseconds since Origin; Instant::now()   *)
(* and Local::now() both read it.  A Duration is a number of milliseconds. *)
(* An Option is a sequence of length 0 (None) or 1 (Some).                 *)
(***************************************************************************)
EXTENDS Integers, Sequences, FiniteSets, TLC

VARIABLES
    \* PomodoroTimer (main.rs:51-60)
    start_time, work_duration, short_break_duration, long_break_duration,
    state, completed_work_sessions, long_break_interval, last_completed_time,
    \* locals of terminal_run (main.rs:146-158, 206, 238)
    pc, paused, clean_without_output, last_line_count, current_line_count,
    target_datetimes, idx,
    \* shared between the tasks
    if_running, rx, data, file,
    \* the reload task's position and the results reload() has returned so far
    reload_pc, reloads,
    \* the lists handed to the store so far, by try_new and by set_config
    \* (observation only)
    installed,
    \* handle_user_input's position
    input_pc,
    \* the clock
    now, advances,
    \* what the loop did in the frame under way (observation only, never read by
    \* a guard; forgotten when the frame is complete)
    last_op, before, snapshot, frame, notified, erased,
    \* how the last iteration that began a frame ended; the lines printed since
    \* the last erase step; what that count was when the erase step of the frame
    \* under way ran (observation only)
    last_tick, on_screen, owed,
    \* when switched on at the start: the lines the listener has read, the
    \* commands it has sent and the commands the loop has taken off the queue, in
    \* order (observation only)
    journal

engine == <<start_time, work_duration, short_break_duration, long_break_duration,
            state, completed_work_sessions, long_break_interval, last_completed_time>>
durations == <<work_duration, short_break_duration, long_break_duration>>
render == <<clean_without_output, last_line_count, current_line_count,
            target_datetimes, idx>>
history == <<last_op, before, snapshot, frame, notified, erased,
             last_tick, on_screen, owed>>
clock == <<now, advances>>
store == <<data, file, reload_pc, reloads, installed>>
vars == <<engine, pc, paused, render, if_running, rx, store, input_pc,
          clock, history, journal>>

----------------------------------------------------------------------------
\* Bounds of the model
MaxAdvances == 1
MaxSessions == 2
MaxQueue == 1
MaxRecords == 3
MaxReloads == 2
MaxScreen == 6
MaxTyped == 3


----------------------------------------------------------------------------
\* Option<T>
None == << >>
Some(v) == <<v>>
IsSome(o) == Len(o) = 1
Unwrap(o) == o[1]

\* Duration::from_secs
from_secs(s) == s * 1000
\* A count of seconds that rounds a started second up
as_secs_rounded_up(d) == (d + 999) \div 1000
\* Duration::as_secs
as_secs(d) == d \div 1000

\* Integer division that truncates toward zero, as Rust's `/` and chrono's num_* do
TruncDiv(a, b) == IF a >= 0 THEN a \div b ELSE -((-a) \div b)

----------------------------------------------------------------------------
\* A u64 is four limbs of 16 bits, the least significant first, so that the
\* arithmetic of the setters keeps its 64 bits
Base == 2^16
WideZero == <<0, 0, 0, 0>>

\* The u64 of a small number
ToWide(n) == <<n % Base, n \div Base, 0, 0>>

\* The number of a u64 under 2^31
WideToInt(w) == w[1] + w[2] * Base

\* The low 64 bits of w * m + a, and what is carried out of them
WideMulAdd(w, m, a) ==
    LET t1 == w[1] * m + a
        t2 == w[2] * m + t1 \div Base
        t3 == w[3] * m + t2 \div Base
        t4 == w[4] * m + t3 \div Base
    IN  [value |-> <<t1 % Base, t2 % Base, t3 % Base, t4 % Base>>,
         carry |-> t4 \div Base]

\* `a * m` on u64 (main.rs:120, 124, 128): the product if it fits; if it does
\* not, a panic in a build with overflow checks and the low 64 bits in a build
\* without them
mul_u64(a, m) ==
    LET p == WideMulAdd(a, m, 0)
    IN  IF p.carry = 0 THEN {[panic |-> FALSE, value |-> p.value]}
        ELSE {[panic |-> TRUE, value |-> p.value],
              [panic |-> FALSE, value |-> p.value]}

----------------------------------------------------------------------------
\* PomodoroState (main.rs:43-49)
PomodoroState == {"Idle", "Work", "ShortBreak", "LongBreak"}

\* PomodoroTimer::new (main.rs:63-74)
new ==
    /\ start_time = None
    /\ work_duration = from_secs(25 * 60)
    /\ short_break_duration = from_secs(5 * 60)
    /\ long_break_duration = from_secs(15 * 60)
    /\ state = "Idle"
    /\ completed_work_sessions = 0
    /\ long_break_interval = 4
    /\ last_completed_time = None

\* stop, forgetting to clear start_time
stop_keeps_start_time ==
    /\ state' = "Idle"
    /\ UNCHANGED <<start_time, durations, completed_work_sessions,
                   long_break_interval, last_completed_time>>

\* PomodoroTimer::stop (main.rs:76-79)
stop ==
    /\ start_time' = None
    /\ state' = "Idle"
    /\ UNCHANGED <<durations, completed_work_sessions, long_break_interval,
                   last_completed_time>>

\* duration_of with the two break durations exchanged
duration_of_swapped(st, work, short, long) ==
    CASE st = "Work" -> work
      [] st = "ShortBreak" -> long
      [] st = "LongBreak" -> short
      [] st = "Idle" -> 0

\* The duration remaining_time matches on (main.rs:84-89); Idle returns zero at once
duration_of(st, work, short, long) ==
    CASE st = "Work" -> work
      [] st = "ShortBreak" -> short
      [] st = "LongBreak" -> long
      [] st = "Idle" -> 0

\* remaining_from without the comparison of elapsed with the duration
remaining_from_unfloored(start, st, work, short, long, t) ==
    IF st = "Idle" THEN from_secs(0)
    ELSE duration_of(st, work, short, long) - (t - start)

\* The closure of remaining_time (main.rs:83-94), for a start stamp, at time t
remaining_from(start, st, work, short, long, t) ==
    LET elapsed == t - start
        duration == duration_of(st, work, short, long)
    IN  IF st = "Idle" THEN from_secs(0)
        ELSE IF elapsed >= duration THEN from_secs(0)
        ELSE duration - elapsed

\* PomodoroTimer::remaining_time (main.rs:81-96): Option::map over start_time
remaining_time ==
    IF start_time = None THEN None
    ELSE Some(remaining_from(Unwrap(start_time), state, work_duration,
                             short_break_duration, long_break_duration, now))

\* next_state counting a completed break as a work session
next_state_counts_breaks ==
    /\ completed_work_sessions' =
          IF state # "Idle" THEN completed_work_sessions + 1
          ELSE completed_work_sessions
    /\ last_completed_time' =
          IF state \in {"Work", "ShortBreak", "LongBreak"} THEN Some(now)
          ELSE last_completed_time
    /\ state' = "Idle"
    /\ start_time' = None
    /\ UNCHANGED <<durations, long_break_interval>>

\* next_state going on to the next phase by itself instead of to Idle
next_state_advances ==
    /\ completed_work_sessions' =
          IF state = "Work" THEN completed_work_sessions + 1
          ELSE completed_work_sessions
    /\ last_completed_time' =
          IF state \in {"Work", "ShortBreak", "LongBreak"} THEN Some(now)
          ELSE last_completed_time
    /\ state' =
          CASE state = "Work" ->
                 IF long_break_interval # 0
                    /\ completed_work_sessions' % long_break_interval = 0
                 THEN "LongBreak" ELSE "ShortBreak"
            [] state \in {"ShortBreak", "LongBreak"} -> "Work"
            [] state = "Idle" -> "Idle"
    /\ start_time' = IF state = "Idle" THEN None ELSE Some(now)
    /\ UNCHANGED <<durations, long_break_interval>>

\* PomodoroTimer::next_state (main.rs:98-111)
next_state ==
    /\ completed_work_sessions' =
          IF state = "Work" THEN completed_work_sessions + 1
          ELSE completed_work_sessions
    /\ last_completed_time' =
          IF state \in {"Work", "ShortBreak", "LongBreak"} THEN Some(now)
          ELSE last_completed_time
    /\ state' = "Idle"
    /\ start_time' = None
    /\ UNCHANGED <<durations, long_break_interval>>

\* set_state that only re-stamps a phase already running
set_state_keeps_running(new_state) ==
    /\ state' = IF state = "Idle" THEN new_state ELSE state
    /\ start_time' = Some(now)
    /\ last_completed_time' = None
    /\ UNCHANGED <<durations, completed_work_sessions, long_break_interval>>

\* A set_state that keeps the time of the last completion
set_state_keeps_completion(new_state) ==
    /\ state' = new_state
    /\ start_time' = Some(now)
    /\ UNCHANGED last_completed_time
    /\ UNCHANGED <<durations, completed_work_sessions, long_break_interval>>

\* PomodoroTimer::set_state (main.rs:113-117)
set_state(new_state) ==
    /\ state' = new_state
    /\ start_time' = Some(now)
    /\ last_completed_time' = None
    /\ UNCHANGED <<durations, completed_work_sessions, long_break_interval>>

\* PomodoroTimer::set_work_duration (main.rs:119-121)
set_work_duration(minutes) ==
    /\ \E product \in mul_u64(minutes, 60) :
          /\ ~product.panic
          /\ work_duration' = from_secs(WideToInt(product.value))
    /\ UNCHANGED <<start_time, short_break_duration, long_break_duration, state,
                   completed_work_sessions, long_break_interval, last_completed_time>>

\* PomodoroTimer::set_short_break_duration (main.rs:123-125)
set_short_break_duration(minutes) ==
    /\ \E product \in mul_u64(minutes, 60) :
          /\ ~product.panic
          /\ short_break_duration' = from_secs(WideToInt(product.value))
    /\ UNCHANGED <<start_time, work_duration, long_break_duration, state,
                   completed_work_sessions, long_break_interval, last_completed_time>>

\* PomodoroTimer::set_long_break_duration (main.rs:127-129)
set_long_break_duration(minutes) ==
    /\ \E product \in mul_u64(minutes, 60) :
          /\ ~product.panic
          /\ long_break_duration' = from_secs(WideToInt(product.value))
    /\ UNCHANGED <<start_time, work_duration, short_break_duration, state,
                   completed_work_sessions, long_break_interval, last_completed_time>>

\* PomodoroTimer::set_long_break_interval (main.rs:131-133)
set_long_break_interval(interval) ==
    /\ long_break_interval' = interval
    /\ UNCHANGED <<start_time, durations, state, completed_work_sessions,
                   last_completed_time>>

\* PomodoroTimer::time_since_last_completion (main.rs:135-137)
time_since_last_completion ==
    IF last_completed_time = None THEN None
    ELSE Some(now - Unwrap(last_completed_time))

----------------------------------------------------------------------------
\* Command lines.  A line is the sequence of its whitespace-separated tokens
\* (main.rs:163-167 splits it; handle_user_input trims it, main.rs:360).

\* The characters of the tokens the model types as arguments
TokenChars ==
    [tok \in {"0", "1", "2", "+1", "x", "-1", "", "307445734561825861",
              "18446744073709551616"} |->
        CASE tok = "0" -> <<"0">>
          [] tok = "307445734561825861" ->
                <<"3", "0", "7", "4", "4", "5", "7", "3", "4", "5", "6", "1", "8",
                  "2", "5", "8", "6", "1">>
          [] tok = "18446744073709551616" ->
                <<"1", "8", "4", "4", "6", "7", "4", "4", "0", "7", "3", "7", "0",
                  "9", "5", "5", "1", "6", "1", "6">>
          [] tok = "1" -> <<"1">>
          [] tok = "2" -> <<"2">>
          [] tok = "+1" -> <<"+", "1">>
          [] tok = "x" -> <<"x">>
          [] tok = "-1" -> <<"-", "1">>
          [] tok = "" -> << >>]

DigitChars == {"0", "1", "2", "3", "4", "5", "6", "7", "8", "9"}
DigitValue(c) ==
    CASE c = "0" -> 0 [] c = "1" -> 1 [] c = "2" -> 2 [] c = "3" -> 3 [] c = "4" -> 4
      [] c = "5" -> 5 [] c = "6" -> 6 [] c = "7" -> 7 [] c = "8" -> 8 [] c = "9" -> 9

\* The u64 of a sequence of decimal digits, and whether it passed 2^64 - 1 on
\* the way
RECURSIVE DigitsUpTo(_, _)
DigitsUpTo(cs, k) ==
    IF k = 0 THEN [value |-> WideZero, overflow |-> FALSE]
    ELSE LET front == DigitsUpTo(cs, k - 1)
             next == WideMulAdd(front.value, 10, DigitValue(cs[k]))
         IN  IF front.overflow THEN front
             ELSE [value |-> next.value, overflow |-> next.carry # 0]
DigitsValue(cs) == DigitsUpTo(cs, Len(cs))

\* A parse that reads zero where the text is not a number
parse_or_zero(tok) ==
    LET cs == TokenChars[tok]
        ds == IF cs # << >> /\ cs[1] = "+" THEN Tail(cs) ELSE cs
    IN  IF /\ ds # << >> /\ \A k \in 1..Len(ds) : ds[k] \in DigitChars
           /\ ~DigitsValue(ds).overflow
        THEN Some(DigitsValue(ds).value) ELSE Some(WideZero)

\* str::parse::<u64> (main.rs:175, 180, 185): an optional leading "+", then one
\* or more decimal digits of a number up to 2^64 - 1; anything else is an Err
parse_unsigned(tok) ==
    LET cs == TokenChars[tok]
        ds == IF cs # << >> /\ cs[1] = "+" THEN Tail(cs) ELSE cs
    IN  IF /\ ds # << >> /\ \A i \in 1..Len(ds) : ds[i] \in DigitChars
           /\ ~DigitsValue(ds).overflow
        THEN Some(DigitsValue(ds).value)
        ELSE None

\* str::parse::<u32> (main.rs:190): as for u64, of a number up to 2^32 - 1
parse_u32(tok) ==
    LET parsed == parse_unsigned(tok)
    IN  IF IsSome(parsed) /\ Unwrap(parsed)[3] = 0 /\ Unwrap(parsed)[4] = 0
        THEN Some(WideToInt(Unwrap(parsed)))
        ELSE None

----------------------------------------------------------------------------
\* Countdown records (config.rs:9-13, main.rs:211): title, datetime text, enabled.
\* The datetime text is held as the six numbers a text of the shape
\* "Y-M-D h:m:s" spells, or as << >> when the text has no such shape.

\* The instant the clock counts from: now = 0 is 2098-12-31 00:00:00
Origin == <<2098, 12, 31, 0, 0, 0>>

IsLeapYear(y) == (y % 4 = 0 /\ y % 100 # 0) \/ y % 400 = 0
DaysInMonth(y, m) ==
    CASE m \in {1, 3, 5, 7, 8, 10, 12} -> 31
      [] m \in {4, 6, 9, 11} -> 30
      [] m = 2 -> IF IsLeapYear(y) THEN 29 ELSE 28

\* Days from 1970-01-01 to the civil date y-m-d (proleptic Gregorian calendar)
DaysFromCivil(y, m, d) ==
    LET yy == IF m <= 2 THEN y - 1 ELSE y
        era == yy \div 400
        yoe == yy - era * 400
        mp == IF m > 2 THEN m - 3 ELSE m + 9
        doy == (153 * mp + 2) \div 5 + d - 1
        doe == yoe * 365 + yoe \div 4 - yoe \div 100 + doy
    IN  era * 146097 + doe - 719468

\* Seconds from Origin to a valid date and time
SecondsFromOrigin(f) ==
    (DaysFromCivil(f[1], f[2], f[3]) - DaysFromCivil(Origin[1], Origin[2], Origin[3]))
        * 86400
    + (f[4] * 3600 + f[5] * 60 + f[6])
    - (Origin[4] * 3600 + Origin[5] * 60 + Origin[6])

\* NaiveDateTime::parse_from_str(.., "%Y-%m-%d %H:%M:%S") (main.rs:213): Some(the
\* instant, in seconds from Origin) for a real calendar date and time of day
parse_from_str(f) ==
    IF /\ Len(f) = 6
       /\ f[2] \in 1..12
       /\ f[3] >= 1 /\ f[3] <= DaysInMonth(f[1], f[2])
       /\ f[4] \in 0..23 /\ f[5] \in 0..59 /\ f[6] \in 0..59
    THEN Some(SecondsFromOrigin(f))
    ELSE None

\* filter(enabled) and filter_map(parse) over the snapshot (main.rs:206-224).  Each
\* kept pair carries `pos`, its index in the snapshot, which no code reads.
\* A collect that stops at the first enabled record that does not parse
RECURSIVE collect_until_bad(_, _)
collect_until_bad(countdown, i) ==
    IF i > Len(countdown) THEN << >>
    ELSE LET c == countdown[i]
             parsed == parse_from_str(c.datetime)
         IN  IF ~c.enabled THEN collect_until_bad(countdown, i + 1)
             ELSE IF IsSome(parsed)
             THEN <<[title |-> c.title, datetime |-> Unwrap(parsed), pos |-> i]>>
                      \o collect_until_bad(countdown, i + 1)
             ELSE << >>

RECURSIVE collect(_, _)
collect(countdown, i) ==
    IF i > Len(countdown) THEN << >>
    ELSE LET c == countdown[i]
             parsed == parse_from_str(c.datetime)
         IN  IF c.enabled /\ IsSome(parsed)
             THEN <<[title |-> c.title, datetime |-> Unwrap(parsed), pos |-> i]>>
                      \o collect(countdown, i + 1)
             ELSE collect(countdown, i + 1)

\* The diagnostics printed while collecting (main.rs:215-221): one per enabled
\* record whose datetime does not parse
diagnostics(countdown) ==
    Cardinality({i \in 1..Len(countdown) :
                    countdown[i].enabled /\ parse_from_str(countdown[i].datetime) = None})

\* insert_sorted that puts x before the elements equal to it
RECURSIVE insert_before_equal(_, _)
insert_before_equal(sorted, x) ==
    IF sorted = << >> THEN <<x>>
    ELSE IF sorted[Len(sorted)].datetime < x.datetime THEN Append(sorted, x)
    ELSE Append(insert_before_equal(SubSeq(sorted, 1, Len(sorted) - 1), x),
                sorted[Len(sorted)])

\* Insertion of x into a sorted sequence after every element not greater than it
RECURSIVE insert_sorted(_, _)
insert_sorted(sorted, x) ==
    IF sorted = << >> THEN <<x>>
    ELSE IF sorted[Len(sorted)].datetime <= x.datetime THEN Append(sorted, x)
    ELSE Append(insert_sorted(SubSeq(sorted, 1, Len(sorted) - 1), x),
                sorted[Len(sorted)])

\* target_datetimes.sort_by(|a, b| a.1.cmp(&b.1)) (main.rs:226): slice::sort_by is
\* a stable sort; the stable order of a sequence is unique, computed here by insertion
RECURSIVE sort_by(_)
sort_by(s) ==
    IF s = << >> THEN << >>
    ELSE insert_sorted(sort_by(SubSeq(s, 1, Len(s) - 1)), s[Len(s)])

----------------------------------------------------------------------------
\* Formatting (main.rs:292-340)

\* The decimal digits of a natural number
RECURSIVE Digits(_)
Digits(n) == IF n < 10 THEN <<n>> ELSE Append(Digits(n \div 10), n % 10)

\* format!("{:0w}", n) for n >= 0: the digits, zero-padded on the left to width w
RECURSIVE ZeroPad(_, _)
ZeroPad(ds, w) == IF Len(ds) >= w THEN ds ELSE ZeroPad(<<0>> \o ds, w)
format_padded(n, w) == ZeroPad(Digits(n), w)

\* remaining = target_datetime - now (main.rs:294), in milliseconds
remaining_of(target, t) == target * 1000 - t

\* chrono's Duration::num_seconds, num_minutes, num_hours, num_days
num_seconds(d) == TruncDiv(d, 1000)
num_minutes(d) == TruncDiv(d, 60000)
num_hours(d) == TruncDiv(d, 3600000)
num_days(d) == TruncDiv(d, 86400000)

\* message_of with the day band beginning at 86400 seconds
message_of_day_from_86400(title, remaining) ==
    LET remaining_seconds == num_seconds(remaining)
    IN  CASE remaining_seconds >= 86400 ->
               [band |-> "days", title |-> title, notify |-> FALSE,
                days |-> Digits(num_days(remaining)),
                hours |-> format_padded(num_hours(remaining) % 24, 2),
                minutes |-> format_padded(num_minutes(remaining) % 60, 2),
                secs |-> format_padded(num_seconds(remaining) % 60, 2)]
          [] remaining_seconds >= 1 /\ remaining_seconds <= 86399 ->
               [band |-> "subday", title |-> title, notify |-> FALSE,
                hours |-> format_padded(num_hours(remaining) % 24, 2),
                minutes |-> format_padded(num_minutes(remaining) % 60, 2),
                secs |-> format_padded(num_seconds(remaining) % 60, 2),
                mills |-> format_padded(remaining % 1000, 3)]
          [] remaining_seconds = 0 ->
               [band |-> "now", title |-> title, notify |-> TRUE]
          [] remaining_seconds <= -1 ->
               [band |-> "ago", title |-> title, notify |-> FALSE,
                seconds |-> Digits(-remaining_seconds)]

\* message_of printing the hours in total, not modulo 24
message_of_total_hours(title, remaining) ==
    LET remaining_seconds == num_seconds(remaining)
    IN  CASE remaining_seconds >= 86401 ->
               [band |-> "days", title |-> title, notify |-> FALSE,
                days |-> Digits(num_days(remaining)),
                hours |-> format_padded(num_hours(remaining), 2),
                minutes |-> format_padded(num_minutes(remaining) % 60, 2),
                secs |-> format_padded(num_seconds(remaining) % 60, 2)]
          [] remaining_seconds >= 1 /\ remaining_seconds <= 86400 ->
               [band |-> "subday", title |-> title, notify |-> FALSE,
                hours |-> format_padded(num_hours(remaining), 2),
                minutes |-> format_padded(num_minutes(remaining) % 60, 2),
                secs |-> format_padded(num_seconds(remaining) % 60, 2),
                mills |-> format_padded(remaining % 1000, 3)]
          [] remaining_seconds = 0 ->
               [band |-> "now", title |-> title, notify |-> TRUE]
          [] remaining_seconds <= -1 ->
               [band |-> "ago", title |-> title, notify |-> FALSE,
                seconds |-> Digits(-remaining_seconds)]

\* The match on remaining_seconds (main.rs:297-340).  The message is held as its
\* band and the texts of its parts; `notify` says whether the arm calls
\* osx_terminal_notifier.
message_of(title, remaining) ==
    LET remaining_seconds == num_seconds(remaining)
    IN  CASE remaining_seconds >= 86401 ->
               [band |-> "days", title |-> title, notify |-> FALSE,
                days |-> Digits(num_days(remaining)),
                hours |-> format_padded(num_hours(remaining) % 24, 2),
                minutes |-> format_padded(num_minutes(remaining) % 60, 2),
                secs |-> format_padded(num_seconds(remaining) % 60, 2)]
          [] remaining_seconds >= 1 /\ remaining_seconds <= 86400 ->
               [band |-> "subday", title |-> title, notify |-> FALSE,
                hours |-> format_padded(num_hours(remaining) % 24, 2),
                minutes |-> format_padded(num_minutes(remaining) % 60, 2),
                secs |-> format_padded(num_seconds(remaining) % 60, 2),
                mills |-> format_padded(remaining % 1000, 3)]
          [] remaining_seconds = 0 ->
               [band |-> "now", title |-> title, notify |-> TRUE]
          [] remaining_seconds <= -1 ->
               [band |-> "ago", title |-> title, notify |-> FALSE,
                seconds |-> Digits(-remaining_seconds)]

----------------------------------------------------------------------------
\* What the engine looked like when the operation just done began, and what
\* remaining_time returned right after it; forgotten when the next frame begins
View ==
    [state |-> state, sessions |-> completed_work_sessions,
     remaining |-> remaining_time, remaining_after |-> remaining_time']

\* No operation yet in this iteration
Blank ==
    [state |-> "Idle", sessions |-> 0, remaining |-> None, remaining_after |-> None]

Observe(op) ==
    /\ last_op' = op
    /\ before' = View
    /\ on_screen' = IF op = "unknown" THEN on_screen + 1 ELSE on_screen
    /\ UNCHANGED <<snapshot, frame, notified, erased, last_tick, owed>>

\* The journal with one more line read and one more command sent
Typed(line, command) ==
    IF journal.on
    THEN [journal EXCEPT !.typed = Append(@, line), !.sent = Append(@, command)]
    ELSE journal

\* The journal with one more command taken off the queue
Taken(command) ==
    IF journal.on THEN [journal EXCEPT !.applied = Append(@, command)] ELSE journal

\* A try_recv that takes the first command and throws the others away
Received_drains ==
    /\ pc = "top"
    /\ if_running
    /\ rx # << >>
    /\ rx' = << >>
    /\ journal' = Taken(Head(rx))

\* while if_running ... if let Ok(command) = rx.try_recv() (main.rs:160-161)
Received ==
    /\ pc = "top"
    /\ if_running
    /\ rx # << >>
    /\ rx' = Tail(rx)
    /\ journal' = Taken(Head(rx))

\* A numeric command whose multiplication overflows in a build with overflow
\* checks (main.rs:120, 124, 128): the task of the loop panics with the timer as
\* it was, and main returns the error of the join (main.rs:422)
CmdSetterPanics ==
    /\ Received /\ Len(Head(rx)) = 2 /\ Head(rx)[1] \in {"work", "short", "long"}
    /\ LET minutes == parse_unsigned(Head(rx)[2])
       IN  /\ IsSome(minutes)
           /\ \E product \in mul_u64(Unwrap(minutes), 60) : product.panic
    /\ pc' = "panicked"
    /\ UNCHANGED <<engine, paused, render, if_running, store, input_pc, clock>>
    /\ Observe("panic")

\* Neither has the loop returned nor has its task panicked
ProcessAlive == pc \notin {"exit", "panicked"}

\* if paused { sleep; continue } (main.rs:201-204), else on to the frame
Proceed ==
    /\ pc' = IF paused' THEN "top" ELSE "tick"
    /\ UNCHANGED <<render, if_running, store, input_pc, clock>>

\* The counter is a u32; the model stops counting at MaxSessions
SessionsBound == state = "Work" => completed_work_sessions < MaxSessions

\* ["start"] (main.rs:169)
CmdStart ==
    /\ Received /\ Head(rx) = <<"start">>
    /\ set_state("Work")
    /\ UNCHANGED paused /\ Proceed /\ Observe("start")

\* ["stop"] (main.rs:170)
CmdStop ==
    /\ Received /\ Head(rx) = <<"stop">>
    /\ stop
    /\ UNCHANGED paused /\ Proceed /\ Observe("stop")

\* ["short"] (main.rs:171)
CmdShort ==
    /\ Received /\ Head(rx) = <<"short">>
    /\ set_state("ShortBreak")
    /\ UNCHANGED paused /\ Proceed /\ Observe("short")

\* ["long"] (main.rs:172)
CmdLong ==
    /\ Received /\ Head(rx) = <<"long">>
    /\ set_state("LongBreak")
    /\ UNCHANGED paused /\ Proceed /\ Observe("long")

\* ["next"] (main.rs:173)
CmdNext ==
    /\ Received /\ Head(rx) = <<"next">>
    /\ SessionsBound
    /\ next_state
    /\ UNCHANGED paused /\ Proceed /\ Observe("next")

\* ["work", duration] (main.rs:174-178)
CmdWork ==
    /\ Received /\ Len(Head(rx)) = 2 /\ Head(rx)[1] = "work"
    /\ LET minutes == parse_unsigned(Head(rx)[2])
       IN  IF IsSome(minutes) THEN set_work_duration(Unwrap(minutes))
           ELSE UNCHANGED engine
    /\ UNCHANGED paused /\ Proceed /\ Observe("work_n")

\* ["short", duration] (main.rs:179-183)
CmdShortDuration ==
    /\ Received /\ Len(Head(rx)) = 2 /\ Head(rx)[1] = "short"
    /\ LET minutes == parse_unsigned(Head(rx)[2])
       IN  IF IsSome(minutes) THEN set_short_break_duration(Unwrap(minutes))
           ELSE UNCHANGED engine
    /\ UNCHANGED paused /\ Proceed /\ Observe("short_n")

\* ["long", duration] (main.rs:184-188)
CmdLongDuration ==
    /\ Received /\ Len(Head(rx)) = 2 /\ Head(rx)[1] = "long"
    /\ LET minutes == parse_unsigned(Head(rx)[2])
       IN  IF IsSome(minutes) THEN set_long_break_duration(Unwrap(minutes))
           ELSE UNCHANGED engine
    /\ UNCHANGED paused /\ Proceed /\ Observe("long_n")

\* ["interval", count] (main.rs:189-193)
CmdInterval ==
    /\ Received /\ Len(Head(rx)) = 2 /\ Head(rx)[1] = "interval"
    /\ LET interval == parse_u32(Head(rx)[2])
       IN  IF IsSome(interval) THEN set_long_break_interval(Unwrap(interval))
           ELSE UNCHANGED engine
    /\ UNCHANGED paused /\ Proceed /\ Observe("interval_n")

\* ["pause"] (main.rs:194)
CmdPause ==
    /\ Received /\ Head(rx) = <<"pause">>
    /\ paused' = TRUE
    /\ UNCHANGED engine /\ Proceed /\ Observe("pause")

\* ["resume"] (main.rs:195)
CmdResume ==
    /\ Received /\ Head(rx) = <<"resume">>
    /\ paused' = FALSE
    /\ UNCHANGED engine /\ Proceed /\ Observe("resume")

\* The lines one of the arms above matches (main.rs:169-195)
Recognized(line) ==
    \/ line \in {<<"start">>, <<"stop">>, <<"short">>, <<"long">>, <<"next">>,
                 <<"pause">>, <<"resume">>}
    \/ Len(line) = 2 /\ line[1] \in {"work", "short", "long", "interval"}

\* _ => println!("未知命令: ...") (main.rs:196)
CmdUnknown ==
    /\ Received /\ ~Recognized(Head(rx))
    /\ on_screen < MaxScreen
    /\ UNCHANGED <<engine, paused>> /\ Proceed /\ Observe("unknown")

\* try_recv finds the queue empty (main.rs:161)
NoCommand ==
    /\ pc = "top"
    /\ if_running
    /\ rx = << >>
    /\ last_op' = "none"
    /\ before' = Blank
    /\ UNCHANGED <<engine, paused, rx, snapshot, frame, notified, erased,
                   last_tick, on_screen, owed, journal>>
    /\ Proceed

\* A loop that does not look at the flag while it is paused
Exit_unless_paused ==
    /\ pc = "top"
    /\ ~if_running
    /\ ~paused
    /\ pc' = "exit"
    /\ UNCHANGED <<engine, paused, render, if_running, rx, store, input_pc,
                   clock, history,
                   journal>>

\* The while condition fails (main.rs:160): terminal_run returns and main ends
Exit ==
    /\ pc = "top"
    /\ ~if_running
    /\ pc' = "exit"
    /\ UNCHANGED <<engine, paused, render, if_running, rx, store, input_pc,
                   clock, history,
                   journal>>

----------------------------------------------------------------------------
\* One frame of terminal_run (main.rs:206-350)

\* get_config, filter, parse, sort, then the erase of the previous frame
\* (main.rs:206-238)
Snapshot ==
    /\ pc = "tick"
    /\ target_datetimes' = sort_by(collect(data, 1))
    /\ erased' = IF ~clean_without_output THEN last_line_count ELSE 0
    /\ current_line_count' = 0
    /\ idx' = 1
    /\ snapshot' = data
    /\ frame' = << >>
    /\ notified' = << >>
    /\ last_op' = "none"
    /\ before' = Blank
    /\ owed' = on_screen + diagnostics(data)
    /\ on_screen' = 0
    /\ pc' = "status"
    /\ UNCHANGED <<engine, paused, clean_without_output, last_line_count,
                   if_running, rx, store, input_pc, clock, last_tick,
                   journal>>

\* The locals of the loop body (main.rs:206, 238) end with the iteration
OutOfScope ==
    /\ current_line_count' = 0
    /\ target_datetimes' = << >>
    /\ idx' = 1

\* PomodoroState::Idle => one status line (main.rs:243-255), then the line of
\* completed sessions (main.rs:285-290)
StatusIdle ==
    /\ pc = "status"
    /\ state = "Idle"
    /\ current_line_count' = current_line_count + 1 + 1
    /\ on_screen' = on_screen + 1 + 1
    /\ pc' = "records"
    /\ UNCHANGED <<engine, paused, clean_without_output, last_line_count,
                   target_datetimes, idx, if_running, rx, store, input_pc,
                   clock, last_op, before, snapshot, frame, notified, erased,
                   last_tick, owed,
                   journal>>

\* _ => the status line with the remaining time, not yet at zero whole seconds
\* (main.rs:256-265), then the line of completed sessions (main.rs:285-290)
StatusRunning ==
    /\ pc = "status"
    /\ state # "Idle"
    /\ ~(IsSome(remaining_time) /\ as_secs(Unwrap(remaining_time)) = 0)
    /\ current_line_count' =
          current_line_count + (IF IsSome(remaining_time) THEN 1 ELSE 0) + 1
    /\ on_screen' = on_screen + (IF IsSome(remaining_time) THEN 1 ELSE 0) + 1
    /\ pc' = "records"
    /\ UNCHANGED <<engine, paused, clean_without_output, last_line_count,
                   target_datetimes, idx, if_running, rx, store, input_pc,
                   clock, last_op, before, snapshot, frame, notified, erased,
                   last_tick, owed,
                   journal>>

\* remaining.as_secs() == 0 (main.rs:265-281): next_state, the notification, two
\* more counted lines, clean_without_output, continue (the count of this
\* iteration is dropped with the locals: last_line_count is not assigned)
StatusPhaseEnd ==
    /\ pc = "status"
    /\ state # "Idle"
    /\ IsSome(remaining_time) /\ as_secs(Unwrap(remaining_time)) = 0
    /\ SessionsBound
    /\ next_state
    /\ notified' = Append(notified, "PhaseEnd")
    /\ OutOfScope
    /\ clean_without_output' = TRUE
    /\ pc' = "top"
    /\ UNCHANGED <<paused, last_line_count, if_running, rx,
                   store, input_pc, clock, snapshot, frame, erased, owed,
                   journal>>
    /\ last_op' = "phase_end"
    /\ before' = View
    /\ last_tick' = "phase_end"
    /\ on_screen' = on_screen + 1 + 1 + 2

\* One iteration of the for loop over target_datetimes (main.rs:292-345)
RenderRecord ==
    /\ pc = "records"
    /\ idx <= Len(target_datetimes)
    /\ LET entry == target_datetimes[idx]
           remaining == remaining_of(entry.datetime, now)
           message == message_of(entry.title, remaining)
       IN  /\ frame' = Append(frame, [pos |-> entry.pos, target |-> entry.datetime,
                                      remaining |-> remaining,
                                      r |-> num_seconds(remaining),
                                      message |-> message])
           /\ notified' = IF message.notify THEN Append(notified, entry.pos)
                          ELSE notified
    /\ current_line_count' = current_line_count + 1
    /\ on_screen' = on_screen + 1
    /\ idx' = idx + 1
    /\ UNCHANGED <<engine, pc, paused, clean_without_output, last_line_count,
                   target_datetimes, if_running, rx, store, input_pc, clock,
                   last_op, before, snapshot, erased, last_tick, owed,
                   journal>>

\* A frame end that leaves the suppression of the erase as it is
EndFrame_keeps_suppression ==
    /\ pc = "records"
    /\ idx > Len(target_datetimes)
    /\ UNCHANGED clean_without_output
    /\ last_line_count' = current_line_count
    /\ pc' = "top"
    /\ OutOfScope
    /\ snapshot' = << >> /\ frame' = << >> /\ notified' = << >> /\ erased' = 0
    /\ last_tick' = "rendered" /\ owed' = 0
    /\ UNCHANGED <<engine, paused, if_running, rx, store, input_pc, clock,
                   last_op, before, on_screen,
                   journal>>

\* After the for loop (main.rs:347-350)
EndFrame ==
    /\ pc = "records"
    /\ idx > Len(target_datetimes)
    /\ clean_without_output' = FALSE
    /\ last_line_count' = current_line_count
    /\ pc' = "top"
    /\ OutOfScope
    /\ snapshot' = << >> /\ frame' = << >> /\ notified' = << >> /\ erased' = 0
    /\ last_tick' = "rendered" /\ owed' = 0
    /\ UNCHANGED <<engine, paused, if_running, rx, store, input_pc, clock,
                   last_op, before, on_screen,
                   journal>>

----------------------------------------------------------------------------
\* handle_user_input (main.rs:354-372)

\* The lines the model types at the engine
EngineLines ==
    {<<"start">>, <<"stop">>, <<"short">>, <<"long">>, <<"next">>,
     <<"work", "0">>, <<"short", "0">>, <<"long", "+1">>, <<"interval", "2">>}

\* All the lines the model types
Lines ==
    EngineLines \cup {<<"work", "1">>, <<"work", "x">>, <<"bogus">>, << >>,
                      <<"pause">>, <<"resume">>, <<"help">>}

\* Lines no arm applies: an unknown verb, no token at all, a verb with a token
\* too many or too few, a numeric argument that is not an unsigned number
MalformedLines ==
    {<<"bogus">>, << >>, <<"start", "x">>, <<"work">>, <<"work", "1", "2">>,
     <<"work", "x">>, <<"short", "-1">>, <<"long", "x">>, <<"interval", "-1">>}

\* The lines that start each phase, end a short break at once, and pause
PhaseLines ==
    {<<"start">>, <<"short">>, <<"long">>, <<"short", "0">>, <<"pause">>,
     <<"resume">>}

\* The lines typed around the help text
HelpLines == {<<"help">>, <<"start">>, <<"stop">>}

\* The lines typed in bursts
QueueLines == {<<"start">>, <<"stop">>, <<"pause">>, <<"resume">>}

\* The lines that begin, stop and complete phases
CompletionLines ==
    {<<"start">>, <<"stop">>, <<"short">>, <<"long">>, <<"next">>, <<"short", "0">>}

\* The malformed lines, and the lines that set the engine and the pause up
CommandLines ==
    MalformedLines \cup {<<"start">>, <<"work", "1">>, <<"pause">>, <<"resume">>}

\* while if_running.load() (main.rs:357): on to the blocking read_line, or return
InputLoop ==
    /\ input_pc = "loop"
    /\ ProcessAlive
    /\ input_pc' = IF if_running THEN "read" ELSE "done"
    /\ UNCHANGED <<engine, pc, paused, render, if_running, rx, store, clock,
                   history, journal>>

\* read_line returns a line (main.rs:359-369): "help" sends pause, any other line
\* is sent as it is.  At most cap commands wait in the queue; a journal holds at
\* most MaxTyped lines, the line after a "help" included
TypeLineUpTo(lines, cap) ==
    /\ input_pc = "read"
    /\ ProcessAlive
    /\ Len(rx) < cap
    /\ \E line \in lines :
          IF line = <<"help">>
          THEN /\ journal.on => Len(journal.typed) + 2 <= MaxTyped
               /\ rx' = Append(rx, <<"pause">>)
               /\ journal' = Typed(line, <<"pause">>)
               /\ input_pc' = "help"
          ELSE /\ journal.on => Len(journal.typed) + 1 <= MaxTyped
               /\ rx' = Append(rx, line)
               /\ journal' = Typed(line, line)
               /\ input_pc' = "loop"
    /\ UNCHANGED <<engine, pc, paused, render, if_running, store, clock,
                   history>>

TypeLine(lines) == TypeLineUpTo(lines, MaxQueue)

\* The user types any line
InputLine == TypeLine(Lines)

\* The user types a malformed line, or one that sets the engine and the pause up
InputCommandLine == TypeLine(CommandLines)

\* The user types a line that starts a phase, ends a short break, or pauses
InputPhaseLine == TypeLine(PhaseLines)

\* The user types help, or a line for the engine
InputHelpOrLine == TypeLine(HelpLines)

\* The user types faster than the loop reads: one more command may wait
InputBurstLine == TypeLineUpTo(QueueLines, MaxQueue + 1)

\* The user types a line that begins, stops or completes a phase
InputCompletionLine == TypeLine(CompletionLines)

\* The user types a line for the engine once the loop has taken the line before;
\* lines that wait behind one another are InputBurstLine's
InputEngineLine == TypeLineUpTo(EngineLines, 1)

\* The lines the model types after the help text
FollowUpLines == {<< >>, <<"stop">>, <<"help">>}

\* A listener that sends the line read after the help text, and then resume
InputHelpLine_forwards ==
    /\ input_pc = "help"
    /\ ProcessAlive
    /\ Len(rx) < MaxQueue
    /\ \E line \in FollowUpLines :
          /\ rx' = rx \o <<line, <<"resume">>>>
          /\ journal' = IF journal.on
                         THEN [journal EXCEPT !.typed = Append(@, line),
                                              !.sent = @ \o <<line, <<"resume">>>>]
                         ELSE journal
    /\ input_pc' = "loop"
    /\ UNCHANGED <<engine, pc, paused, render, if_running, store, clock,
                   history>>

\* The read_line after print_help (main.rs:363-366): the line is dropped and
\* resume is sent
InputHelpLine ==
    /\ input_pc = "help"
    /\ ProcessAlive
    /\ Len(rx) < MaxQueue
    /\ \E line \in FollowUpLines :
          /\ rx' = Append(rx, <<"resume">>)
          /\ journal' = Typed(line, <<"resume">>)
    /\ input_pc' = "loop"
    /\ UNCHANGED <<engine, pc, paused, render, if_running, store, clock,
                   history>>

\* The ctrlc handler (main.rs:398-400)
Interrupt ==
    /\ ProcessAlive
    /\ if_running
    /\ if_running' = FALSE
    /\ UNCHANGED <<engine, pc, paused, render, rx, store, input_pc, clock,
                   history,
                   journal>>

----------------------------------------------------------------------------
\* The configuration file and the reload task (config.rs:26-67, main.rs:414-420)

\* The records the model puts in configuration files
Launch == [title |-> "Launch", datetime |-> <<2099, 1, 1, 0, 0, 0>>, enabled |-> TRUE]
Soon == [title |-> "Soon", datetime |-> <<2098, 12, 31, 0, 0, 1>>, enabled |-> TRUE]
Broken == [title |-> "Broken", datetime |-> <<2098, 2, 29, 0, 0, 0>>, enabled |-> TRUE]
Twin == [title |-> "Twin", datetime |-> <<2099, 1, 1, 0, 0, 0>>, enabled |-> TRUE]
Later == [title |-> "Later", datetime |-> <<2099, 1, 1, 0, 0, 1>>, enabled |-> TRUE]
Due == [title |-> "Due", datetime |-> <<2098, 12, 31, 0, 0, 0>>, enabled |-> TRUE]
Past == [title |-> "Past", datetime |-> <<2098, 12, 30, 23, 59, 59>>, enabled |-> TRUE]
Hidden == [title |-> "Hidden", datetime |-> <<2098, 12, 31, 0, 0, 0>>, enabled |-> FALSE]
\* Broken with its date put right; never in the lists of Records
Mended == [title |-> "Broken", datetime |-> <<2098, 12, 31, 0, 0, 2>>, enabled |-> TRUE]
Records == {Launch, Soon, Broken, Twin, Later, Due, Past, Hidden}

\* The lists of at most n records
RECURSIVE ListsUpTo(_)
ListsUpTo(n) ==
    IF n = 0 THEN {<< >>}
    ELSE LET shorter == ListsUpTo(n - 1)
         IN  shorter \cup {Append(l, c) : l \in shorter, c \in Records}

\* A file is missing, unreadable, not a document of the format, or a document
Documents ==
    {[kind |-> "missing", countdown |-> << >>],
     [kind |-> "unreadable", countdown |-> << >>],
     [kind |-> "malformed", countdown |-> << >>],
     [kind |-> "document", countdown |-> <<Launch>>],
     [kind |-> "document", countdown |-> <<Soon, Broken>>],
     [kind |-> "document", countdown |-> <<Broken, Soon>>],
     [kind |-> "document", countdown |-> <<Mended, Soon>>]}

\* reload that adds the records of the file to the list in the store
reload_appends(doc, current) ==
    IF doc.kind = "document" THEN current \o doc.countdown ELSE current

\* reload that installs an empty list when the file cannot be used
reload_or_empty(doc, current) ==
    IF doc.kind = "document" THEN doc.countdown ELSE << >>

\* What reload() leaves in the store for the file it finds: `?` returns early
\* when the file cannot be opened, read or decoded (config.rs:60-63); otherwise
\* set_config replaces the list (config.rs:64, 45-48)
reload(doc, current) ==
    IF doc.kind = "document" THEN doc.countdown ELSE current

\* The Result reload() returns (config.rs:59-66)
reload_result(doc) == IF doc.kind = "document" THEN "Ok" ELSE "Err"

\* tokio::time::sleep(1 s) in the reload task is over (main.rs:417)
ReloadWake ==
    /\ ProcessAlive
    /\ reload_pc = "sleep"
    /\ Len(reloads) < MaxReloads
    /\ reload_pc' = "reload"
    /\ UNCHANGED <<engine, pc, paused, render, if_running, rx, data, file, reloads,
                   installed, input_pc, clock, history,
                   journal>>

\* let _ = config_for_reload.reload().await (main.rs:418), then the loop goes
\* round (main.rs:416)
Reload ==
    /\ ProcessAlive
    /\ reload_pc = "reload"
    /\ data' = reload(file, data)
    /\ reloads' = Append(reloads, reload_result(file))
    /\ installed' = IF reload_result(file) = "Ok"
                     THEN installed \cup {file.countdown} ELSE installed
    /\ reload_pc' = "sleep"
    /\ UNCHANGED <<engine, pc, paused, render, if_running, rx, file, input_pc,
                   clock, history,
                   journal>>

\* Somebody rewrites the configuration file
EditFile ==
    /\ ProcessAlive
    /\ \E doc \in Documents : doc # file /\ file' = doc
    /\ UNCHANGED <<engine, pc, paused, render, if_running, rx, data, reload_pc,
                   reloads, installed, input_pc, clock, history,
                   journal>>

\* The numbers the setters are given: small ones, the least number of minutes
\* whose seconds pass 2^64 - 1, and the least number that is no u64
SetterLines ==
    {<<"start">>, <<"next">>, <<"work", "1">>, <<"work", "307445734561825861">>,
     <<"short", "307445734561825861">>, <<"long", "307445734561825861">>,
     <<"work", "18446744073709551616">>, <<"interval", "0">>,
     <<"interval", "307445734561825861">>}

InputSetterLine == TypeLine(SetterLines)

\* Time passes: the clock moves on by d milliseconds
AdvanceBy(d) ==
    /\ ProcessAlive
    /\ advances < MaxAdvances
    /\ now' = now + d
    /\ advances' = advances + 1
    /\ UNCHANGED <<engine, pc, paused, render, if_running, rx, store,
                   input_pc, history,
                   journal>>

\* Half a second short of a minute passes
AdvanceMinute == AdvanceBy(59500)

\* Half a second passes
AdvanceHalfSecond == AdvanceBy(500)

----------------------------------------------------------------------------
\* No journal is kept; an empty journal
JournalOff == [on |-> FALSE, typed |-> << >>, sent |-> << >>, applied |-> << >>]
JournalOn == [on |-> TRUE, typed |-> << >>, sent |-> << >>, applied |-> << >>]

\* main (main.rs:389-425): try_new succeeded on a document; terminal_run's locals
Init ==
    /\ new
    /\ pc = "top" /\ paused = FALSE
    /\ clean_without_output = FALSE /\ last_line_count = 0
    /\ current_line_count = 0 /\ target_datetimes = << >> /\ idx = 1
    /\ if_running = TRUE /\ rx = << >>
    /\ file = [kind |-> "document", countdown |-> <<Launch>>]
    /\ data = file.countdown
    /\ reload_pc = "sleep" /\ reloads = << >> /\ installed = {data}
    /\ input_pc = "loop"
    /\ now = 0 /\ advances = 0
    /\ last_op = "none" /\ before = Blank
    /\ snapshot = << >> /\ frame = << >> /\ notified = << >> /\ erased = 0
    /\ last_tick = "none" /\ on_screen = 0 /\ owed = 0
    /\ journal = JournalOff

\* main with any configuration file of at most MaxRecords records
InitCountdown ==
    /\ new
    /\ pc = "top" /\ paused = FALSE
    /\ clean_without_output = FALSE /\ last_line_count = 0
    /\ current_line_count = 0 /\ target_datetimes = << >> /\ idx = 1
    /\ if_running = TRUE /\ rx = << >>
    /\ \E list \in ListsUpTo(MaxRecords) :
          file = [kind |-> "document", countdown |-> list]
    /\ data = file.countdown
    /\ reload_pc = "sleep" /\ reloads = << >> /\ installed = {data}
    /\ input_pc = "loop"
    /\ now = 0 /\ advances = 0
    /\ last_op = "none" /\ before = Blank
    /\ snapshot = << >> /\ frame = << >> /\ notified = << >> /\ erased = 0
    /\ last_tick = "none" /\ on_screen = 0 /\ owed = 0
    /\ journal = JournalOff

\* main as in Init, with a journal of the lines and commands
InitJournal ==
    /\ new
    /\ pc = "top" /\ paused = FALSE
    /\ clean_without_output = FALSE /\ last_line_count = 0
    /\ current_line_count = 0 /\ target_datetimes = << >> /\ idx = 1
    /\ if_running = TRUE /\ rx = << >>
    /\ file = [kind |-> "document", countdown |-> <<Launch>>]
    /\ data = file.countdown
    /\ reload_pc = "sleep" /\ reloads = << >> /\ installed = {data}
    /\ input_pc = "loop"
    /\ now = 0 /\ advances = 0
    /\ last_op = "none" /\ before = Blank
    /\ snapshot = << >> /\ frame = << >> /\ notified = << >> /\ erased = 0
    /\ last_tick = "none" /\ on_screen = 0 /\ owed = 0
    /\ journal = JournalOn

EngineCommand ==
    \/ CmdStart \/ CmdStop \/ CmdShort \/ CmdLong \/ CmdNext
    \/ CmdWork \/ CmdShortDuration \/ CmdLongDuration \/ CmdInterval

Frame == Snapshot \/ StatusIdle \/ StatusRunning \/ StatusPhaseEnd
            \/ RenderRecord \/ EndFrame

\* The engine under the commands typed at it, the frames and the clock
Next ==
    \/ EngineCommand \/ NoCommand \/ Frame
    \/ InputLoop \/ InputEngineLine
    \/ AdvanceMinute

Spec == Init /\ [][Next]_vars

\* The frames of an idle engine over any configuration, and the clock
NextCountdown ==
    \/ NoCommand \/ Snapshot \/ StatusIdle \/ RenderRecord \/ EndFrame
    \/ AdvanceHalfSecond

SpecCountdown == InitCountdown /\ [][NextCountdown]_vars

\* The frames of an idle engine while the file is rewritten and reloaded
NextReload ==
    \/ NoCommand \/ Snapshot \/ StatusIdle \/ RenderRecord \/ EndFrame
    \/ ReloadWake \/ Reload \/ EditFile

SpecReload == Init /\ [][NextReload]_vars

\* The steps of terminal_run in every phase, paused or not, until it returns
LoopInterrupt ==
    \/ CmdStart \/ CmdShort \/ CmdLong \/ CmdShortDuration
    \/ CmdPause \/ CmdResume \/ NoCommand \/ Exit \/ Frame

\* The loop, the listener and the interrupt handler
NextInterrupt == LoopInterrupt \/ InputLoop \/ InputPhaseLine \/ Interrupt

\* The task of terminal_run is scheduled again after each of its sleeps
\* (main.rs:203, 349), so a step of the loop that stays possible is taken
SpecInterrupt ==
    Init /\ [][NextInterrupt]_vars /\ WF_vars(LoopInterrupt)

\* The steps of terminal_run under start, stop, pause and resume
LoopHelp ==
    \/ CmdStart \/ CmdStop \/ CmdPause \/ CmdResume \/ NoCommand
    \/ Snapshot \/ StatusIdle \/ StatusRunning \/ RenderRecord \/ EndFrame

\* The loop and a listener whose user asks for help; no interrupt
NextHelp == LoopHelp \/ InputLoop \/ InputHelpOrLine \/ InputHelpLine

\* The task of terminal_run is scheduled again after each of its sleeps
\* (main.rs:203, 349); nothing is assumed of the user
SpecHelp == InitJournal /\ [][NextHelp]_vars /\ WF_vars(LoopHelp)

\* The loop, paused or not, and a listener that lets commands queue up
NextQueue ==
    \/ CmdStart \/ CmdStop \/ CmdPause \/ CmdResume \/ NoCommand
    \/ Snapshot \/ StatusIdle \/ StatusRunning \/ RenderRecord \/ EndFrame
    \/ InputLoop \/ InputBurstLine

SpecQueue == InitJournal /\ [][NextQueue]_vars

\* The phases begun, stopped and completed, by command and by the frame
NextPhases ==
    \/ CmdStart \/ CmdStop \/ CmdShort \/ CmdLong \/ CmdNext \/ CmdShortDuration
    \/ NoCommand \/ Frame
    \/ InputLoop \/ InputCompletionLine
    \/ AdvanceMinute

SpecPhases == Init /\ [][NextPhases]_vars

\* The dispatch of well-formed and malformed lines, paused or not
NextCommands ==
    \/ CmdStart \/ CmdWork \/ CmdShortDuration \/ CmdLongDuration \/ CmdInterval
    \/ CmdPause \/ CmdResume \/ CmdUnknown \/ NoCommand
    \/ Snapshot \/ StatusIdle \/ StatusRunning \/ RenderRecord \/ EndFrame
    \/ InputLoop \/ InputCommandLine

SpecCommands == Init /\ [][NextCommands]_vars

\* The setters under small and large numbers, the frames and the clock
NextSetters ==
    \/ CmdStart \/ CmdNext \/ CmdWork \/ CmdShortDuration \/ CmdLongDuration
    \/ CmdInterval \/ CmdSetterPanics \/ NoCommand \/ Frame
    \/ InputLoop \/ InputSetterLine
    \/ AdvanceMinute

SpecSetters == Init /\ [][NextSetters]_vars

----------------------------------------------------------------------------
\* The steps the claims speak of

\* A command line of the given tokens is taken off the queue and dispatched
Dispatched(line) ==
    pc = "top" /\ if_running /\ rx # << >> /\ Head(rx) = line /\ rx' = Tail(rx)

\* A two-token command line with the given verb is dispatched
DispatchedVerb(verb) ==
    /\ pc = "top" /\ if_running /\ rx # << >> /\ rx' = Tail(rx)
    /\ Len(Head(rx)) = 2 /\ Head(rx)[1] = verb

\* The frame finds the phase at its end and advances the engine
PhaseEndStep == pc = "status" /\ pc' = "top"

\* next_state() is called: by the command next, or by the frame at phase end
NextStateStep == Dispatched(<<"next">>) \/ PhaseEndStep

\* The time since the phase began
elapsed == now - Unwrap(start_time)

Max(a, b) == IF a >= b THEN a ELSE b

----------------------------------------------------------------------------
\* C1: in every reachable state, start_time is unset if and only if the phase
\* is Idle.
C1_StartTimeUnsetIffIdle == (start_time = None) <=> (state = "Idle")

\* The frame has ended a Work phase by itself, and the engine is Idle and unstamped
C1_Witness ==
    last_op = "phase_end" /\ before.state = "Work" /\ state = "Idle"
        /\ start_time = None

\* C2: remaining_time() is None exactly when the phase is Idle, is never negative,
\* and is zero once the elapsed time has reached the duration of the phase.
C2_RemainingNeverNegative ==
    /\ (remaining_time = None) <=> (state = "Idle")
    /\ IsSome(remaining_time) => Unwrap(remaining_time) >= 0
    /\ (state = "Work" /\ IsSome(start_time) /\ elapsed >= work_duration)
          => remaining_time = Some(0)
    /\ (state = "ShortBreak" /\ IsSome(start_time) /\ elapsed >= short_break_duration)
          => remaining_time = Some(0)
    /\ (state = "LongBreak" /\ IsSome(start_time) /\ elapsed >= long_break_duration)
          => remaining_time = Some(0)

\* A Work phase has run past its duration and remaining_time() is zero
C2_Witness ==
    state = "Work" /\ IsSome(start_time) /\ elapsed > work_duration
        /\ remaining_time = Some(0)

\* C3: completed_work_sessions never decreases; a step that changes it is a
\* next_state() taken in Work and adds exactly one; next_state() from another
\* phase, and start, stop, short, long and the setters, leave it unchanged.
C3_SessionsOnlyCountWork ==
    [][/\ completed_work_sessions' >= completed_work_sessions
       /\ completed_work_sessions' # completed_work_sessions
             => /\ NextStateStep
                /\ state = "Work"
                /\ completed_work_sessions' = completed_work_sessions + 1
       /\ (NextStateStep /\ state # "Work")
             => completed_work_sessions' = completed_work_sessions
       /\ (\/ Dispatched(<<"start">>) \/ Dispatched(<<"stop">>)
           \/ Dispatched(<<"short">>) \/ Dispatched(<<"long">>)
           \/ DispatchedVerb("work") \/ DispatchedVerb("short")
           \/ DispatchedVerb("long") \/ DispatchedVerb("interval"))
             => completed_work_sessions' = completed_work_sessions]_vars

\* The command next has been applied in Work and the counter is one more
C3_Witness ==
    last_op = "next" /\ before.state = "Work"
        /\ completed_work_sessions = before.sessions + 1

\* C4 as claimed: next_state() from Work goes on to LongBreak when the new count
\* is a multiple of long_break_interval and to ShortBreak otherwise, from a break
\* it goes on to Work, and it stamps start_time.
C4_NextStateAdvancesPhase ==
    [][NextStateStep =>
          /\ state = "Work" =>
                /\ completed_work_sessions' = completed_work_sessions + 1
                /\ state' = IF completed_work_sessions' % long_break_interval = 0
                            THEN "LongBreak" ELSE "ShortBreak"
                /\ start_time' = Some(now)
          /\ state \in {"ShortBreak", "LongBreak"} =>
                /\ state' = "Work"
                /\ start_time' = Some(now)]_vars

\* C4 as amended: next_state() from Work adds one to completed_work_sessions, from
\* Work or a break it stamps last_completed_time, and from every phase it goes to
\* Idle and clears start_time; long_break_interval is not read and not changed.
C4_NextStateGoesIdle ==
    [][NextStateStep =>
          /\ completed_work_sessions' =
                IF state = "Work" THEN completed_work_sessions + 1
                ELSE completed_work_sessions
          /\ last_completed_time' =
                IF state # "Idle" THEN Some(now) ELSE last_completed_time
          /\ state' = "Idle"
          /\ start_time' = None
          /\ UNCHANGED <<durations, long_break_interval>>]_vars

\* With the interval at its default of 4, a second Work phase has been completed
\* by next and the engine is Idle
C4_Witness ==
    last_op = "next" /\ before.state = "Work" /\ long_break_interval = 4
        /\ completed_work_sessions = 2 /\ state = "Idle" /\ start_time = None
        /\ IsSome(last_completed_time)

\* C5 as claimed: start in Idle goes to Work and stamps start_time; start in a
\* running phase keeps the phase and only re-stamps start_time.
C5_StartKeepsRunningPhase ==
    [][Dispatched(<<"start">>) =>
          /\ state' = IF state = "Idle" THEN "Work" ELSE state
          /\ start_time' = Some(now)]_vars

\* C5 as amended: start in any phase sets the phase to Work, stamps start_time
\* and clears last_completed_time.
C5_StartForcesWork ==
    [][Dispatched(<<"start">>) =>
          /\ state' = "Work"
          /\ start_time' = Some(now)
          /\ last_completed_time' = None
          /\ UNCHANGED <<durations, completed_work_sessions,
                         long_break_interval>>]_vars

\* start has been applied during a ShortBreak and the phase is Work
C5_Witness ==
    last_op = "start" /\ before.state = "ShortBreak" /\ state = "Work"
        /\ start_time = Some(now)

\* C6 as claimed: a duration setter leaves remaining_time() of the phase in
\* flight as it was.
C6_SetterKeepsRemaining ==
    [][(DispatchedVerb("work") \/ DispatchedVerb("short") \/ DispatchedVerb("long"))
          => remaining_time' = remaining_time]_vars

\* The duration field a setter verb writes, and the phase that counts toward it
FieldOf(verb) ==
    CASE verb = "work" -> work_duration
      [] verb = "short" -> short_break_duration
      [] verb = "long" -> long_break_duration
PhaseOf(verb) ==
    CASE verb = "work" -> "Work"
      [] verb = "short" -> "ShortBreak"
      [] verb = "long" -> "LongBreak"

\* C6 as amended: a duration setter changes nothing but its own duration field;
\* remaining_time() reads the field as it is now, so for a running phase of the
\* setter's kind it is at once the new duration less the elapsed time, floored
\* at zero, and for any other phase it is what it was.
C6_SetterTakesEffectAtOnce ==
    [][\A verb \in {"work", "short", "long"} :
          DispatchedVerb(verb) =>
             /\ UNCHANGED <<state, start_time, completed_work_sessions,
                            long_break_interval, last_completed_time>>
             /\ \A other \in {"work", "short", "long"} \ {verb} :
                   FieldOf(other)' = FieldOf(other)
             /\ remaining_time' =
                   IF state = PhaseOf(verb)
                   THEN Some(Max(0, FieldOf(verb)' - elapsed))
                   ELSE remaining_time]_vars

\* "work 0" has been applied during a Work phase and remaining_time() changed
C6_Witness ==
    last_op = "work_n" /\ before.state = "Work" /\ state = "Work"
        /\ before.remaining # before.remaining_after
        /\ before.remaining_after = Some(0)

----------------------------------------------------------------------------
\* The positions of the snapshot's records that are enabled and parse
Kept(list) ==
    {i \in 1..Len(list) : list[i].enabled /\ IsSome(parse_from_str(list[i].datetime))}

\* The for loop has rendered every line of this frame
FrameComplete == pc = "records" /\ idx > Len(target_datetimes)

\* C7: the countdown lines of one frame are in non-decreasing order of target
\* timestamp, lines with equal timestamps are in the order their records have in
\* the snapshot, and a complete frame has one line for each record kept.
C7_RenderedInStableOrder ==
    /\ \A i, j \in 1..Len(frame) :
          i < j => /\ frame[i].target <= frame[j].target
                   /\ frame[i].target = frame[j].target => frame[i].pos < frame[j].pos
    /\ \A i \in 1..Len(frame) :
          /\ frame[i].pos \in Kept(snapshot)
          /\ Some(frame[i].target) = parse_from_str(snapshot[frame[i].pos].datetime)
          /\ frame[i].message.title = snapshot[frame[i].pos].title
    /\ FrameComplete =>
          /\ Len(frame) = Cardinality(Kept(snapshot))
          /\ {frame[i].pos : i \in 1..Len(frame)} = Kept(snapshot)

\* A complete frame of three lines: the record first in the snapshot is rendered
\* last, and two records of equal timestamp keep their snapshot order
C7_Witness ==
    /\ FrameComplete /\ Len(frame) = 3
    /\ frame[3].pos = 1
    /\ frame[1].target = frame[2].target
    /\ frame[1].message.title # frame[2].message.title
    /\ frame[1].pos = 2 /\ frame[2].pos = 3

\* How often the notifier was called for the record at a snapshot position
Notifications(p) == Cardinality({k \in 1..Len(notified) : notified[k] = p})

\* C8: the band of a line is decided by its whole remaining seconds r: r > 86400
\* the day band, 1 <= r <= 86400 the sub-day band, r = 0 "now is the time" with
\* exactly one notification for the record in the frame, r < 0 "was -r seconds
\* ago"; no notification for r # 0.
C8_BandByRemainingSeconds ==
    \A i \in 1..Len(frame) :
       LET r == frame[i].r
           m == frame[i].message
       IN  /\ r = TruncDiv(frame[i].remaining, 1000)
           /\ (r > 86400) <=> (m.band = "days")
           /\ (r >= 1 /\ r <= 86400) <=> (m.band = "subday")
           /\ (r = 0) <=> (m.band = "now")
           /\ (r < 0) <=> (m.band = "ago")
           /\ m.band \in {"days", "subday", "now", "ago"}
           /\ r < 0 => m.seconds = Digits(-r)
           /\ r = -1 => m.seconds = <<1>>
           /\ Notifications(frame[i].pos) = IF r = 0 THEN 1 ELSE 0

\* One complete frame with a line at r = 0 (notified once), a line at r = 86400
\* in the sub-day band and a line at r = 86401 in the day band
C8_Witness ==
    /\ FrameComplete /\ Len(frame) = 3
    /\ frame[1].r = 0 /\ frame[1].message.band = "now"
    /\ notified = <<frame[1].pos>>
    /\ frame[2].r = 86400 /\ frame[2].message.band = "subday"
    /\ frame[3].r = 86401 /\ frame[3].message.band = "days"

\* The line of the single record Launch, rendered with exactly 86400 s remaining
LaunchAtOneDay ==
    /\ snapshot = <<Launch>> /\ Len(frame) = 1
    /\ frame[1].remaining = 86400 * 1000

\* C9 as claimed: Launch at 2099-01-01 00:00:00 seen from 2098-12-31 00:00:00
\* renders "Launch", "1 days" and "00:00:00".
C9_LaunchRendersOneDay ==
    LaunchAtOneDay =>
       LET m == frame[1].message
       IN  /\ m.title = "Launch"
           /\ m.band = "days"
           /\ m.days = <<1>>
           /\ m.hours = <<0, 0>> /\ m.minutes = <<0, 0>> /\ m.secs = <<0, 0>>

\* C9 as amended: it renders the sub-day message, with "Launch" and "00:00:00"
\* for hours, minutes and seconds, ".000" for the milliseconds, and no day count.
C9_LaunchRendersSubDay ==
    LaunchAtOneDay =>
       LET m == frame[1].message
       IN  /\ m.title = "Launch"
           /\ m.band = "subday"
           /\ "days" \notin DOMAIN m
           /\ m.hours = <<0, 0>> /\ m.minutes = <<0, 0>> /\ m.secs = <<0, 0>>
           /\ m.mills = <<0, 0, 0>>

\* The frame of the single record Launch, rendered at the origin
C9_Witness == LaunchAtOneDay /\ now = 0 /\ frame[1].r = 86400 /\ FrameComplete

\* The reload task calls reload() and goes back to sleep
ReloadStep == reload_pc = "reload" /\ reload_pc' = "sleep"

\* C10: a reload that cannot open, read or decode the file leaves the list in the
\* store as it was; the task goes on, and a reload of a document replaces the
\* list, after failures too.
C10_FailedReloadKeepsList ==
    [][/\ ReloadStep =>
             /\ file.kind # "document" => data' = data
             /\ file.kind = "document" => data' = file.countdown
             /\ reloads' = Append(reloads, IF file.kind = "document" THEN "Ok"
                                            ELSE "Err")
       /\ reload_pc' \in {"sleep", "reload"}
       /\ data' # data => ReloadStep]_vars

\* A reload failed and left the list alone, and the next one installed a new list
C10_Witness ==
    /\ reloads = <<"Err", "Ok">>
    /\ reload_pc = "sleep"
    /\ data = <<Soon, Broken>>
    /\ file = [kind |-> "document", countdown |-> <<Soon, Broken>>]

----------------------------------------------------------------------------
\* The frame under way has read the store, and the store has since been replaced
StoreReplacedInFrame == pc \in {"status", "records"} /\ data # snapshot

\* C11: the list in the store, and the snapshot a frame reads from it, is always
\* one whole list as it was installed; the frame reads the store once, so all its
\* lines are computed from that one snapshot, also when a reload replaces the
\* list while the frame is under way.
C11_SnapshotIsOneInstalledList ==
    /\ data \in installed
    /\ pc \in {"status", "records"} =>
          /\ snapshot \in installed
          /\ target_datetimes = sort_by(collect(snapshot, 1))
          /\ \A i \in 1..Len(frame) :
                LET p == frame[i].pos
                IN  /\ p \in 1..Len(snapshot)
                    /\ target_datetimes[i].pos = p
                    /\ parse_from_str(snapshot[p].datetime) = Some(frame[i].target)
                    /\ frame[i].message =
                          message_of(snapshot[p].title, frame[i].remaining)

\* A reload has replaced the list between two lines of one frame: one line of
\* the old list is rendered and another is still to come
C11_Witness ==
    /\ StoreReplacedInFrame /\ pc = "records"
    /\ snapshot = <<Mended, Soon>> /\ data = <<Launch>>
    /\ Len(frame) = 1 /\ idx = 2 /\ Len(target_datetimes) = 2

----------------------------------------------------------------------------
\* C12: a command line with an unknown verb, or a numeric argument that does not
\* parse as an unsigned number, leaves the engine and the paused flag as they
\* were and does not end the loop: the iteration goes on as after any command.
C12_MalformedCommandIgnored ==
    [][\A line \in MalformedLines :
          Dispatched(line) =>
             /\ UNCHANGED <<engine, paused, if_running>>
             /\ pc' = IF paused THEN "top" ELSE "tick"]_vars

\* "short -1" has been dispatched while paused in a Work phase of one minute:
\* the engine is as "start" and "work 1" left it, and the loop is still paused
C12_Witness ==
    /\ last_op = "short_n" /\ paused /\ pc = "top" /\ if_running
    /\ state = "Work" /\ before.state = "Work"
    /\ work_duration = from_secs(60) /\ short_break_duration = from_secs(5 * 60)

----------------------------------------------------------------------------
\* C13: the loop exits only after the flag is cleared; once it is cleared, the
\* flag stays cleared, the loop at the top of an iteration can only exit (it
\* takes no command and begins no frame), and the loop does exit, in every phase
\* and also while paused.
C13_InterruptEndsLoop ==
    /\ [](pc = "exit" => ~if_running)
    /\ [][/\ ~if_running => ~if_running'
          /\ (~if_running /\ pc = "top" /\ pc' # "top") => pc' = "exit"
          /\ (~if_running /\ pc = "top") =>
                /\ UNCHANGED <<engine, paused, render>>
                /\ Len(rx') >= Len(rx)
          /\ pc = "exit" => pc' = "exit"]_vars
    /\ (~if_running ~> pc = "exit")

\* The loop has returned while paused in a Work phase
C13_Witness == pc = "exit" /\ ~if_running /\ paused /\ state = "Work"

----------------------------------------------------------------------------
\* The erase step of the frame under way was suppressed
EraseSuppressed == pc \in {"status", "records"} /\ clean_without_output

\* C14: the erase step is suppressed in a frame exactly when the last iteration
\* that began a frame ended the phase by itself; the frame after a suppressed one
\* that was rendered to its end erases the lines of that frame, which are at
\* least two.
C14_EraseSuppressedOnceAfterPhaseEnd ==
    /\ clean_without_output <=> (last_tick = "phase_end")
    /\ pc \in {"status", "records"} =>
          erased = IF last_tick = "phase_end" THEN 0 ELSE last_line_count
    /\ last_tick = "rendered" => last_line_count >= 2
    /\ last_tick = "none" => last_line_count = 0

\* A frame begins after a phase end with lines of an earlier frame counted, and
\* erases none of them
C14_Witness ==
    /\ EraseSuppressed /\ pc = "status" /\ last_tick = "phase_end"
    /\ last_line_count >= 2 /\ erased = 0

----------------------------------------------------------------------------
\* C15: in a frame whose erase step is not suppressed, the number of lines erased
\* is the number of lines printed since the erase step before it, the diagnostics
\* and the notices of unknown commands included.
C15_ErasesWhatWasPrinted ==
    (pc \in {"status", "records"} /\ ~clean_without_output) => erased = owed

----------------------------------------------------------------------------
\* What handle_user_input sends for the lines it reads: pause for "help", resume
\* for the line after it whatever it is, and every other line as it is
RECURSIVE Forwarded(_, _)
Forwarded(lines, after_help) ==
    IF lines = << >> THEN << >>
    ELSE IF after_help THEN <<<<"resume">>>> \o Forwarded(Tail(lines), FALSE)
    ELSE IF Head(lines) = <<"help">>
         THEN <<<<"pause">>>> \o Forwarded(Tail(lines), TRUE)
    ELSE <<Head(lines)>> \o Forwarded(Tail(lines), FALSE)

\* The listener has sent pause and not yet read the line after the help text
RECURSIVE AwaitingLine(_, _)
AwaitingLine(lines, after_help) ==
    IF lines = << >> THEN after_help
    ELSE AwaitingLine(Tail(lines), ~after_help /\ Head(lines) = <<"help">>)

\* C16: for "help" the listener sends pause and then waits for one more line,
\* for that line it sends resume and never the line itself; while the loop is
\* paused it is in no frame and the previous line count and the suppression of
\* the erase do not change; and once the line after the help text has been read,
\* a paused loop is unpaused and begins a frame.
C16_HelpPausesUntilNextLine ==
    /\ [](/\ journal.sent = Forwarded(journal.typed, FALSE)
          /\ (input_pc = "help") <=> AwaitingLine(journal.typed, FALSE)
          /\ paused => pc = "top")
    /\ [][/\ (paused \/ paused') =>
                UNCHANGED <<clean_without_output, last_line_count>>
          /\ (paused /\ ~paused') => Dispatched(<<"resume">>)]_vars
    /\ ((paused /\ input_pc # "help") ~> (~paused /\ pc = "tick"))

\* After start the user typed help and then "stop" at the help text: pause and
\* resume were applied, "stop" never was, and the loop renders the Work phase
C16_Witness ==
    /\ journal.typed = <<<<"start">>, <<"help">>, <<"stop">>>>
    /\ journal.applied = <<<<"start">>, <<"pause">>, <<"resume">>>>
    /\ ~paused /\ state = "Work" /\ pc = "records"

----------------------------------------------------------------------------
\* The loop reads the store and schedules the records of the frame
SnapshotStep == pc = "tick" /\ pc' = "status"

\* The snapshot positions of the records scheduled for the frame under way
Scheduled == {target_datetimes[i].pos : i \in 1..Len(target_datetimes)}

\* C17: every frame schedules exactly the records of the list then in the store
\* that are enabled and parse, each once, whatever else the list holds, and goes
\* on to render them; the list is read and parsed afresh in every frame, so a
\* record is scheduled as soon as the list in the store has it parseable.
C17_SchedulesEnabledParseable ==
    /\ [](/\ pc \in {"status", "records"} =>
                /\ Scheduled = Kept(snapshot)
                /\ Len(target_datetimes) = Cardinality(Kept(snapshot))
          /\ FrameComplete => Len(frame) = Cardinality(Kept(snapshot))
          /\ pc # "exit" /\ if_running)
    /\ [][SnapshotStep =>
             /\ snapshot' = data
             /\ Scheduled' = Kept(data)]_vars

\* After a frame of one record, a frame of the list in which Broken has been put
\* right renders it next to Soon; the list with Broken unparsable was in the store
C17_Witness ==
    /\ FrameComplete /\ snapshot = <<Mended, Soon>> /\ Len(frame) = 2
    /\ frame[2].message.title = "Broken"
    /\ <<Broken, Soon>> \in installed /\ last_line_count = 3

----------------------------------------------------------------------------
\* The loop is at the top of an iteration and takes its first step (every step of
\* the listener moves input_pc)
IterationStep == pc = "top" /\ if_running /\ input_pc' = input_pc

\* C18: the commands taken off the queue so far, followed by those waiting, are
\* the commands the listener has sent, in order; an iteration of the loop, paused
\* or not, takes at most one, the first one waiting, and applies it; with nothing
\* waiting the iteration goes on at once; nothing but the top of an iteration
\* takes a command.
C18_OneCommandPerIterationInOrder ==
    /\ [](/\ journal.applied \o rx = journal.sent
          /\ (pc = "top" /\ if_running /\ rx = << >>) => ENABLED NoCommand)
    /\ [][/\ Len(journal.applied') <= Len(journal.applied) + 1
          /\ journal.applied' # journal.applied =>
                /\ pc = "top" /\ rx # << >>
                /\ journal.applied' = Append(journal.applied, Head(rx))
                /\ rx' = Tail(rx)
                /\ last_op' = Head(rx)[1]
                /\ pc' = IF paused' THEN "top" ELSE "tick"
          /\ (IterationStep /\ rx # << >>) =>
                journal.applied' = Append(journal.applied, Head(rx))
          /\ Len(rx') < Len(rx) => journal.applied' # journal.applied]_vars

\* start, pause and stop were typed in a burst and applied in that order, stop in
\* a paused iteration
C18_Witness ==
    /\ journal.typed = <<<<"start">>, <<"pause">>, <<"stop">>>>
    /\ journal.applied = journal.typed /\ rx = << >>
    /\ paused /\ last_op = "stop" /\ before.state = "Work" /\ state = "Idle"

----------------------------------------------------------------------------
\* C19 as claimed: the frame ends a phase by itself only when the remaining time
\* it computed is exactly zero.
C19_PhaseEndsOnlyAtZero ==
    last_op = "phase_end" => before.remaining = Some(0)

\* C19 as amended: the frame ends a running phase by itself, with next_state()
\* and the notification, exactly when the remaining time it computes is under
\* one second (zero whole seconds); with a second or more remaining it renders
\* the phase and leaves it alone.
C19_PhaseEndsUnderOneSecond ==
    /\ last_op = "phase_end" =>
          /\ before.state # "Idle" /\ state = "Idle"
          /\ IsSome(before.remaining) /\ Unwrap(before.remaining) < 1000
          /\ notified # << >> /\ notified[Len(notified)] = "PhaseEnd"
    /\ (pc = "status" /\ state # "Idle") =>
          /\ Unwrap(remaining_time) >= 1000 => ~ENABLED StatusPhaseEnd
          /\ Unwrap(remaining_time) < 1000 => ~ENABLED StatusRunning
          /\ (Unwrap(remaining_time) < 1000 /\ SessionsBound) => ENABLED StatusPhaseEnd

\* A long break of one minute has been ended by the frame 59.5 s after it began,
\* with 500 ms remaining
C19_Witness ==
    /\ last_op = "phase_end" /\ before.state = "LongBreak"
    /\ before.remaining = Some(500) /\ state = "Idle"

----------------------------------------------------------------------------
\* A command that enters a phase is dispatched
EntryStep ==
    Dispatched(<<"start">>) \/ Dispatched(<<"short">>) \/ Dispatched(<<"long">>)

\* C20: last_completed_time is set only while the phase is Idle, and
\* time_since_last_completion() returns a value exactly when it is set;
\* next_state() out of a running phase sets it to the time of the call and out
\* of Idle leaves it; start, short and long clear it; stop leaves it as it was;
\* no other step changes it.
C20_CompletionTimeOnlyWhileIdle ==
    /\ [](/\ IsSome(last_completed_time) => state = "Idle"
          /\ IsSome(time_since_last_completion) <=> IsSome(last_completed_time)
          /\ IsSome(time_since_last_completion) =>
                Unwrap(time_since_last_completion) >= 0)
    /\ [][/\ (NextStateStep /\ state # "Idle") => last_completed_time' = Some(now)
          /\ (NextStateStep /\ state = "Idle") => UNCHANGED last_completed_time
          /\ EntryStep => last_completed_time' = None
          /\ Dispatched(<<"stop">>) => UNCHANGED last_completed_time
          /\ last_completed_time' # last_completed_time =>
                (NextStateStep \/ EntryStep)]_vars

\* stop has been applied in Idle, 59.5 s after a phase was completed, and the
\* time of the completion is still there
C20_Witness ==
    /\ last_op = "stop" /\ before.state = "Idle" /\ state = "Idle"
    /\ last_completed_time = Some(0) /\ time_since_last_completion = Some(59500)

\* C21: for every argument that parses as a u64, work n, short n and long n set
\* their duration to exactly n * 60 seconds, the product fitting in 64 bits, and
\* the loop does not crash; no interval command crashes the loop or a later step
C21_SettersNeverOverflow ==
    [][/\ \A verb \in {"work", "short", "long"} :
            (DispatchedVerb(verb) /\ IsSome(parse_unsigned(Head(rx)[2])))
                => LET product ==
                           WideMulAdd(Unwrap(parse_unsigned(Head(rx)[2])), 60, 0)
                   IN  /\ product.carry = 0
                       /\ pc' # "panicked"
                       /\ ToWide(as_secs(FieldOf(verb)')) = product.value
       /\ pc' # "panicked"]_vars

\* C21: what does hold: a number whose seconds fit in 64 bits is set exactly, and
\* the interval command, whatever its number, never ends the loop
C21_FittingSettersExact ==
    [][/\ \A verb \in {"work", "short", "long"} :
            (/\ DispatchedVerb(verb) /\ IsSome(parse_unsigned(Head(rx)[2]))
             /\ WideMulAdd(Unwrap(parse_unsigned(Head(rx)[2])), 60, 0).carry = 0)
                => /\ pc' # "panicked"
                   /\ ToWide(as_secs(FieldOf(verb)')) =
                        WideMulAdd(Unwrap(parse_unsigned(Head(rx)[2])), 60, 0).value
       /\ DispatchedVerb("interval")
            => /\ pc' # "panicked"
               /\ UNCHANGED <<work_duration, short_break_duration,
                              long_break_duration, state, start_time>>
       /\ (pc' = "panicked") =>
            \E verb \in {"work", "short", "long"} : DispatchedVerb(verb)]_vars

\* The loop has panicked in a setter
C21_PanicReached == pc = "panicked"

\* A work phase runs with the 44 seconds the wrapped product leaves
C21_WrapReached == state = "Work" /\ work_duration = from_secs(44)

\* The interval is zero and a work phase has ended in the frame since
C21_IntervalZeroTicks ==
    long_break_interval = 0 /\ last_tick = "phase_end" /\ pc # "panicked"
====
